---- MODULE Spec2Model ----
(***************************************************************************)
(* Voice converter backend: the job pipeline of backend/app/main.py        *)
(* (upload, process_audio_file with its five processing modes, cleanup)    *)
(* and the audio arithmetic of AudioProcessor, SentenceProcessor and the   *)
(* two converter classes.                                                  *)
(*                                                                         *)
(* Units.  Sentence timestamps are float seconds in the code; here they    *)
(* are integer microseconds, so that int(seconds * 1000) is a real         *)
(* truncation (ToMs).  Audio lengths are integer milliseconds, as          *)
(* len(AudioSegment) is.                                                   *)
(*                                                                         *)
(* An audio value is the sequence of its pieces, each a record             *)
(* [kind, src, len]: kind "speech" with src = <<job, sentence index>> for  *)
(* synthesized speech, "silence" for AudioSegment.silent, "original" for   *)
(* the uploaded recording.  Pieces of length 0 are never kept.             *)
(***************************************************************************)
EXTENDS Integers, Sequences, FiniteSets, TLC

\* ------------------------------------------------------------------ bounds
MaxSentences == 2      \* longest transcription the collaborator returns
PrimErr == 7           \* ms by which the speed-change primitive may miss

\* ---------------------------------------------------------------- helpers
Abs(x) == IF x < 0 THEN -x ELSE x

\* int(seconds * 1000): Python's int() truncates toward zero
ToMs(us) == IF us >= 0 THEN us \div 1000 ELSE -((-us) \div 1000)

\* len(audio) / 1000.0, kept in microseconds
ToUs(ms) == ms * 1000

NoSrc == <<"", 0>>

RECURSIVE AudioLen(_)
AudioLen(a) == IF a = << >> THEN 0 ELSE a[1].len + AudioLen(Tail(a))

\* AudioSegment.silent(duration=d)
Silent(d) == IF d > 0 THEN << [kind |-> "silence", src |-> NoSrc, len |-> d] >> ELSE << >>

\* the clip the synthesis collaborator returns for sentence i of job j
Clip(j, i, L) == IF L > 0 THEN << [kind |-> "speech", src |-> <<j, i>>, len |-> L] >> ELSE << >>

\* audio[:t] for t >= 0
RECURSIVE Trim(_, _)
Trim(a, t) ==
    IF a = << >> \/ t <= 0 THEN << >>
    ELSE IF a[1].len <= t THEN << a[1] >> \o Trim(Tail(a), t - a[1].len)
    ELSE << [a[1] EXCEPT !.len = t] >>

\* the sources of the speech pieces of an audio value, in order
RECURSIVE SpeechSrcs(_)
SpeechSrcs(a) ==
    IF a = << >> THEN << >>
    ELSE IF a[1].kind = "speech" THEN << a[1].src >> \o SpeechSrcs(Tail(a))
    ELSE SpeechSrcs(Tail(a))

Ok(a) == [ok |-> TRUE, audio |-> a, err |-> ""]
Raise(e) == [ok |-> FALSE, audio |-> << >>, err |-> e]

\* ------------------------------------------------ the speed-change primitive
\* pydub's AudioSegment.speedup is outside the repository: it either raises
\* (it does for clips too short to chunk) or returns audio whose length is
\* only approximately len / playback_speed.
PrimOutcomes == {"raise", "exact", "short", "long"}

\* audio.speedup(playback_speed = 1.0 / ratio), ratio = targetUs / (len * 1000):
\* the nominal result lasts len * ratio = targetUs / 1000 ms
speedup(a, targetUs, o) ==
    LET nominal == ToMs(targetUs)
        got == CASE o = "short" -> nominal - PrimErr
                 [] o = "long" -> nominal + PrimErr
                 [] OTHER -> nominal
    IN IF targetUs = 0 THEN Raise("float division by zero")
       ELSE IF o = "raise" THEN Raise("Could not speed up AudioSegment")
       ELSE IF got <= 0 THEN Ok(<< >>)
       ELSE Ok(<< [a[1] EXCEPT !.len = got] >>)

\* --------------------------------------------------------- AudioProcessor
\* abs(duration_ratio - 1.0) < 0.05 with duration_ratio = target / cloned
WithinFivePercent(targetUs, clonedUs) == Abs(targetUs - clonedUs) * 20 < clonedUs

\* int(len(audio) * ratio) with ratio = targetUs / (len(audio) * 1000)
LenTimesRatio(audio, targetUs) == ToMs(targetUs)

stretch_audio(audio, targetUs, o) ==
    LET r == speedup(audio, targetUs, o)
        target_duration_ms == LenTimesRatio(audio, targetUs)
        padding_ms == target_duration_ms - AudioLen(audio)
    IN IF r.ok THEN r.audio ELSE audio \o Silent(padding_ms)

compress_audio(audio, targetUs, o) ==
    LET r == speedup(audio, targetUs, o)
        target_duration_ms == LenTimesRatio(audio, targetUs)
    IN IF r.ok THEN r.audio ELSE Trim(audio, target_duration_ms)

\* a variant that trims a long clip but does not pad a short one
ensure_exact_duration_no_padding(audio, targetUs) ==
    LET target_duration_ms == ToMs(targetUs)
    IN IF AudioLen(audio) > target_duration_ms THEN Trim(audio, target_duration_ms)
       ELSE audio

ensure_exact_duration(audio, targetUs) ==
    LET target_duration_ms == ToMs(targetUs)
        current_duration_ms == AudioLen(audio)
    IN IF current_duration_ms < target_duration_ms
         THEN audio \o Silent(target_duration_ms - current_duration_ms)
       ELSE IF current_duration_ms > target_duration_ms
         THEN Trim(audio, target_duration_ms)
       ELSE audio

\* match_timing on an already loaded clip; the result is what it exports
match_timing(cloned_audio, target_start_time, target_end_time, o) ==
    LET target_duration == target_end_time - target_start_time
        cloned_duration == ToUs(AudioLen(cloned_audio))
    IN IF cloned_duration = 0 THEN Raise("float division by zero")
       ELSE LET matched_audio ==
                    IF WithinFivePercent(target_duration, cloned_duration) THEN cloned_audio
                    ELSE IF target_duration > cloned_duration
                      THEN stretch_audio(cloned_audio, target_duration, o)
                    ELSE compress_audio(cloned_audio, target_duration, o)
            IN Ok(ensure_exact_duration(matched_audio, target_duration))

\* ------------------------------------------------------ SentenceProcessor
adjust_audio_length(audio, target_duration, o) ==
    LET current_duration == ToUs(AudioLen(audio))
    IN IF current_duration = 0 THEN Raise("float division by zero")
       ELSE LET r == IF WithinFivePercent(target_duration, current_duration) THEN Ok(audio)
                     ELSE speedup(audio, target_duration, o)
            IN IF r.ok THEN Ok(ensure_exact_duration(r.audio, target_duration)) ELSE r

\* text.strip(): leading and trailing whitespace removed
IsSpace(c) == c = " "

RECURSIVE LStrip(_)
LStrip(t) == IF t # << >> /\ IsSpace(t[1]) THEN LStrip(Tail(t)) ELSE t

RECURSIVE RStrip(_)
RStrip(t) == IF t # << >> /\ IsSpace(t[Len(t)]) THEN RStrip(SubSeq(t, 1, Len(t) - 1)) ELSE t

Strip(t) == RStrip(LStrip(t))

\* a variant that also skips a sentence of exactly 100 ms
KeptByFilter_skips_100ms(sentence) ==
    /\ ~(sentence.end_time - sentence.start_time <= 100000)
    /\ ~(Len(Strip(sentence.text)) < 2)

\* one sentence passes _filter_empty_spaces
KeptByFilter(sentence) ==
    /\ ~(sentence.end_time - sentence.start_time < 100000)
    /\ ~(Len(Strip(sentence.text)) < 2)

filter_empty_spaces(sentences) == SelectSeq(sentences, KeptByFilter)

\* end_time - start_time is a difference of doubles: for these
\* <<end_time, start_time>> it lies just below the real difference
\* (0.47 - 0.33 is 0.13999999999999996)
DurationBelow == { <<470000, 330000>> }

\* the (sentence_data, target_duration) pairs; a target_duration that lies
\* just below the real difference is kept one microsecond below it
create_continuous_timeline(sentences) ==
    [k \in 1..Len(sentences) |->
        [sentence |-> sentences[k],
         target_duration |->
             IF <<sentences[k].end_time, sentences[k].start_time>> \in DurationBelow
               THEN sentences[k].end_time - sentences[k].start_time - 1
             ELSE sentences[k].end_time - sentences[k].start_time]]

\* sorted(sentences, key=lambda x: x['start_time']): a new list, stable
InsertByStart(x, sorted) ==
    LET k == Cardinality({ m \in 1..Len(sorted) : sorted[m].start_time <= x.start_time })
    IN SubSeq(sorted, 1, k) \o << x >> \o SubSeq(sorted, k + 1, Len(sorted))

RECURSIVE SortedByStart(_)
SortedByStart(sentences) ==
    IF sentences = << >> THEN << >>
    ELSE InsertByStart(sentences[Len(sentences)],
                       SortedByStart(SubSeq(sentences, 1, Len(sentences) - 1)))

\* the gaps appended by the loop of analyze_sentence_gaps from sentence i on
RECURSIVE GapsBetween(_, _)
GapsBetween(sorted_sentences, i) ==
    IF i > Len(sorted_sentences) THEN << >>
    ELSE LET gap_start == sorted_sentences[i - 1].end_time
             gap_end == sorted_sentences[i].start_time
             gap_duration == gap_end - gap_start
         IN (IF gap_duration > 100000
               THEN << [start |-> gap_start, end |-> gap_end, duration |-> gap_duration] >>
             ELSE << >>) \o GapsBetween(sorted_sentences, i + 1)

RECURSIVE SumDurations(_)
SumDurations(gaps) == IF gaps = << >> THEN 0 ELSE gaps[1].duration + SumDurations(Tail(gaps))

RECURSIVE SpeechTime(_)
SpeechTime(sentences) ==
    IF sentences = << >> THEN 0
    ELSE (sentences[1].end_time - sentences[1].start_time) + SpeechTime(Tail(sentences))

\* a variant without the total_duration > 0 test
Ratio_unguarded(num, den) == <<num, den>>

\* total_speech_time / total_duration as the pair <<numerator, denominator>>,
\* the literal 0 of the else branch as <<0, 1>>
Ratio(num, den) == IF den > 0 THEN <<num, den>> ELSE <<0, 1>>

\* analyze_sentence_gaps: the analysis dict it returns
analyze_sentence_gaps(sentences) ==
    LET sorted_sentences == SortedByStart(sentences)
        between == GapsBetween(sorted_sentences, 2)
        gaps == IF sorted_sentences # << >> /\ sorted_sentences[1].start_time > 100000
                  THEN << [start |-> 0, end |-> sorted_sentences[1].start_time,
                           duration |-> sorted_sentences[1].start_time] >> \o between
                ELSE between
        total_speech_time == SpeechTime(sorted_sentences)
        total_duration == IF sorted_sentences # << >>
                            THEN sorted_sentences[Len(sorted_sentences)].end_time ELSE 0
    IN [total_sentences |-> Len(sentences),
        total_duration |-> total_duration,
        total_speech_time |-> total_speech_time,
        total_gap_time |-> SumDurations(gaps),
        speech_ratio |-> Ratio(total_speech_time, total_duration),
        gaps |-> gaps,
        filtered_sentences |->
            Cardinality({ k \in 1..Len(sentences) :
                            sentences[k].end_time - sentences[k].start_time >= 100000 })]

\* total_speech_time is a sum of differences of doubles.  Where the sentences
\* leave no time unspoken the real sum is total_duration, and the double may
\* lie just above it.  The cases among the lists drawn here, as the
\* <<start_time, end_time>> of the sorted sentences:
\* (0.37 - 0.0) + (1.372 - 0.37) is 1.3720000000000003
SpeechTimeAbove == { << <<0, 370000>>, <<370000, 1372000>> >> }

\* on which side of its whole number of microseconds the double
\* total_speech_time of analyze_sentence_gaps lies (1 above, 0 on it)
analysis_rounding(sentences) ==
    LET sorted_sentences == SortedByStart(sentences)
        times == [k \in 1..Len(sorted_sentences) |->
                     <<sorted_sentences[k].start_time, sorted_sentences[k].end_time>>]
    IN [total_speech_time |-> IF times \in SpeechTimeAbove THEN 1 ELSE 0]

\* a variant that sorts the caller's list in place (sentences.sort)
sentences_after_analysis_in_place(sentences) == SortedByStart(sentences)

\* the caller's list after analyze_sentence_gaps returned: sorted() copies
sentences_after_analysis(sentences) == sentences

\* ------------------------------------------------------------- file system
\* A path is a record: dir, job (the job id its name starts with, "" when the
\* name carries none), name, uuid (the uuid4 token in the name, "" when the
\* name carries none; a fresh uuid4 never repeats, so the token of a call made
\* for job j is written j) and i (the sentence index in the name).
Path(dir, job, name, uuid, i) ==
    [dir |-> dir, job |-> job, name |-> name, uuid |-> uuid, i |-> i]

\* upload_audio: UPLOAD_DIR / f"{job_id}_{file.filename}"
InputPath(j) == Path("uploads", j, "input", "", 0)
\* generate_speech(.., f"{job_id}_sentence_{i}")
SentencePath(j, i) == Path("outputs", j, "sentence", "", i)
\* match_timing(.., f"{job_id}_matched_{i}")
MatchedPath(j, i) == Path("outputs", j, "matched", "", i)
\* generate_speech(.., f"{job_id}_temp_sentence_{i}")
TempSentencePath(j, i) == Path("outputs", j, "temp_sentence", "", i)
\* SameLengthVoiceConverter: generate_speech(.., f"temp_sentence_{i}")
SameLengthTempPath(i) == Path("outputs", "", "temp_sentence", "", i)
\* SentenceProcessor: f"temp_sentence_{uuid.uuid4().hex[:8]}_{i}"
UuidTempPath(j, i) == Path("outputs", "", "temp_sentence", j, i)
\* SentenceProcessor: temp_dir / f"adjusted_{temp_filename}.wav"
AdjustedPath(j, i) == Path("outputs/temp", "", "adjusted_temp_sentence", j, i)
\* concatenate_audio(.., f"{job_id}_final")
FinalPath(j) == Path("outputs", j, "final", "", 0)
\* concatenate_audio(.., f"{job_id}_continuous") and f"{job_id}_continuous" of the converter
ContinuousPath(j) == Path("outputs", j, "continuous", "", 0)
\* process_sentences_with_timestamps(.., f"{job_id}_timestamp_based")
TimestampBasedPath(j) == Path("outputs", j, "timestamp_based", "", 0)
\* input_path.stem + "_same_length", the stem beginning with the job id
SameLengthPath(j) == Path("outputs", j, "input_same_length", "", 0)

\* open(path, "wb") / export(path): create or overwrite
WriteFile(files, p, content) == (p :> content) @@ files

\* os.remove / unlink of every path of ps that exists
RemoveFiles(files, ps) == [p \in (DOMAIN files) \ ps |-> files[p]]

Range(s) == { s[k] : k \in 1..Len(s) }

\* AudioSegment.from_file of every path, in order (all exist)
Load(files, paths) == [k \in 1..Len(paths) |-> files[paths[k]]]

RECURSIVE Flatten(_)
Flatten(as) == IF as = << >> THEN << >> ELSE as[1] \o Flatten(Tail(as))

\* concatenate_audio: a segment that does not load becomes 1000 ms of silence
concatenate_audio(files, audio_paths) ==
    LET seg(p) == IF p \in DOMAIN files THEN files[p] ELSE Silent(1000)
        combined_audio == Flatten([k \in 1..Len(audio_paths) |-> seg(audio_paths[k])])
    IN IF audio_paths = << >> THEN Raise("No audio files to concatenate")
       ELSE IF AudioLen(combined_audio) = 0 THEN Raise("No valid audio segments found")
       ELSE Ok(combined_audio)

\* ------------------------------------------------ ContinuousVoiceConverter
\* gap_duration = sentence.start_time - current_position is a difference of
\* doubles, and int(gap_duration * 1000) truncates it: where the real value is
\* a whole number of milliseconds the double may lie just below it and the
\* silence is one millisecond short.  The cases among the values drawn here,
\* as <<start_time, start_time of the previous sentence, ms of its clip>>:
\* 1.15 - (0.33 + 0.1) is 0.7199999999999999
GapLosesMs == { <<1150000, 330000, 100>> }

\* the same for remaining_gap = original_duration - final_duration, as
\* <<ms of the original, ms assembled so far>>: 8.0 - 1.249 is
\* 6.7509999999999994 and 8.0 - 2.169 is 5.8309999999999995
PadLosesMs == { <<8000, 1249>>, <<8000, 2169>> }

\* int(x * 1000) of such a difference of us microseconds
IntMs(us, lost) ==
    IF lost /\ us > 0 /\ us % 1000 = 0 THEN us \div 1000 - 1 ELSE ToMs(us)

\* the loop of _create_continuous_audio_with_spaces from sentence k on;
\* current_position is prev.start_time + prev.ms / 1000
RECURSIVE SpacesLoop(_, _, _, _, _)
SpacesLoop(clips, sentences, k, final_audio, prev) ==
    IF k > Len(clips) \/ k > Len(sentences) THEN final_audio
    ELSE LET sentence_audio == clips[k]
             current_position == prev.start_time + ToUs(prev.ms)
             gap_duration == sentences[k].start_time - current_position
             lost == <<sentences[k].start_time, prev.start_time, prev.ms>> \in GapLosesMs
             gap == IF gap_duration > 0 THEN Silent(IntMs(gap_duration, lost)) ELSE << >>
         IN SpacesLoop(clips, sentences, k + 1,
                       final_audio \o gap \o sentence_audio,
                       [start_time |-> sentences[k].start_time,
                        ms |-> AudioLen(sentence_audio)])

create_continuous_audio_with_spaces(clips, sentences, original_ms) ==
    LET original_duration == ToUs(original_ms)
        body == SpacesLoop(clips, sentences, 1, << >>, [start_time |-> 0, ms |-> 0])
        final_duration == ToUs(AudioLen(body))
        remaining_gap == original_duration - final_duration
        lost == <<original_ms, AudioLen(body)>> \in PadLosesMs
    IN IF final_duration < original_duration /\ remaining_gap > 0
         THEN body \o Silent(IntMs(remaining_gap, lost))
       ELSE body

\* ------------------------------------------------ SameLengthVoiceConverter
RECURSIVE Sum(_)
Sum(s) == IF s = << >> THEN 0 ELSE s[1] + Sum(Tail(s))

\* (original_duration + extra_time * weight) * 1000 is computed in doubles:
\* for these <<d, total, target>> (ms) the real value is a whole number of
\* milliseconds and the double lies just below it
\* ((1.55 + (0.4 - 3.1) * 0.5) * 1000 is 199.99999999999997)
TargetBelow ==
    { <<1550, 3100, 400>>, <<9000, 18000, 400>>,
      <<50, 50, 1001>>, <<1550, 1550, 1001>>, <<9000, 9000, 1001>> }

\* original_duration = len(original_audio) / 1000.0 and then
\* int(target_duration * 1000): for these lengths (ms) the product lies just
\* below the length (1.001 * 1000 is 1000.9999999999999)
OriginalBelow == { 1001 }

TargetDurationMs(original_ms) ==
    IF original_ms \in OriginalBelow THEN original_ms - 1 ELSE original_ms

\* int((original_duration + extra_time * weight) * 1000) with weight = d / total
\* and extra_time = target - total, all in ms: (d * total + (target - total) * d) / total
SameLengthTargetMs(d, total, target) ==
    LET exact == (d * total + (target - total) * d) \div total
    IN IF <<d, total, target>> \in TargetBelow THEN exact - 1 ELSE exact

\* a variant that stretches beyond twice the natural length too and passes a
\* clip through when the target is within 5% of its length
SameLengthAdjust_stretch_always(sentence_audio, target_duration_ms, o) ==
    LET current_duration_ms == AudioLen(sentence_audio)
    IN IF current_duration_ms = 0 THEN Raise("division by zero")
       ELSE IF WithinFivePercent(target_duration_ms, current_duration_ms)
         THEN Ok(sentence_audio)
       ELSE IF target_duration_ms > current_duration_ms
              \/ 2 * target_duration_ms >= current_duration_ms
         THEN speedup(sentence_audio, ToUs(target_duration_ms), o)
       ELSE Ok(Trim(sentence_audio, target_duration_ms))

\* the adjustment of one clip in _create_same_length_audio
SameLengthAdjust(sentence_audio, target_duration_ms, o) ==
    LET current_duration_ms == AudioLen(sentence_audio)
        padding_ms == target_duration_ms - current_duration_ms
        end_padding_ms == padding_ms \div 2
        remaining_padding_ms == padding_ms - end_padding_ms
    IN IF target_duration_ms > current_duration_ms
         THEN IF current_duration_ms = 0 THEN Raise("division by zero")
              ELSE IF target_duration_ms <= 2 * current_duration_ms
                THEN speedup(sentence_audio, ToUs(target_duration_ms), o)
              ELSE Ok(sentence_audio \o Silent(end_padding_ms)
                        \o (IF remaining_padding_ms > 100
                              THEN Silent(remaining_padding_ms) ELSE << >>))
       ELSE IF target_duration_ms < current_duration_ms
         THEN IF 2 * target_duration_ms >= current_duration_ms
                THEN speedup(sentence_audio, ToUs(target_duration_ms), o)
              ELSE Ok(Trim(sentence_audio, target_duration_ms))
       ELSE Ok(sentence_audio)

RECURSIVE SameLengthLoop(_, _, _, _, _, _)
SameLengthLoop(clips, sentence_durations, target_ms, os, k, final_audio) ==
    IF k > Len(clips) THEN Ok(final_audio)
    ELSE LET r == SameLengthAdjust(clips[k],
                      SameLengthTargetMs(sentence_durations[k], Sum(sentence_durations), target_ms),
                      os[k])
         IN IF r.ok
              THEN SameLengthLoop(clips, sentence_durations, target_ms, os, k + 1,
                                  final_audio \o r.audio)
            ELSE r

\* a variant without the final adjustment to the target duration
create_same_length_audio_no_final_adjustment(clips, sentence_durations, target_ms, os) ==
    IF Sum(sentence_durations) = 0 THEN Raise("float division by zero")
    ELSE SameLengthLoop(clips, sentence_durations, target_ms, os, 1, << >>)

\* _create_same_length_audio on loaded clips; os[k] is what the speed-change
\* primitive does for clip k
create_same_length_audio(clips, sentence_durations, target_ms, os) ==
    IF Sum(sentence_durations) = 0 THEN Raise("float division by zero")
    ELSE LET r == SameLengthLoop(clips, sentence_durations, target_ms, os, 1, << >>)
             final_duration_ms == AudioLen(r.audio)
             target_duration_ms == TargetDurationMs(target_ms)
         IN IF ~r.ok THEN r
            ELSE IF Abs(final_duration_ms - target_duration_ms) > 100
              THEN IF final_duration_ms < target_duration_ms
                     THEN Ok(r.audio \o Silent(target_duration_ms - final_duration_ms))
                   ELSE Ok(Trim(r.audio, target_duration_ms))
            ELSE r

\* ------------------------------------------------------------------ inputs
Jobs == {"j1", "j2"}

\* lengths (ms) of uploaded recordings
OrigLens == {8000}

\* lengths (ms) of the clips the synthesis collaborator returns
ClipLens == {100}

\* sentences the transcription collaborator may return (times in microseconds)
SentencePool ==
    { [text |-> <<"H", "i", ",">>, start_time |-> 330000, end_time |-> 470000],
      [text |-> <<" ", ".">>, start_time |-> 1150000, end_time |-> 1200400] }

\* a transcription result: its sentences, each tagged with its position n
Transcripts ==
    UNION { { [k \in 1..m |-> [text |-> f[k].text, start_time |-> f[k].start_time,
                                end_time |-> f[k].end_time, n |-> k]]
              : f \in [1..m -> SentencePool] } : m \in 0..MaxSentences }

\* the voice_id form field: absent (None), or a voice chosen by the caller
NoVoice == "none"

RequestVoices == {NoVoice, "custom"}

\* settings.ELEVENLABS_VOICE_ID
ELEVENLABS_VOICE_ID == "default"

\* the uploads that may be made: the length of the recording, what is spoken
\* in it, and the voice_id field sent with it
Recordings == [len : OrigLens, sentences : Transcripts, voice_id : RequestVoices]

Modes == {"original", "continuous", "same_length", "timestamp_based", "continuous_with_spaces"}

\* the if / elif chain of process_audio_file over the four "true" flags
ModeOf(flags) ==
    IF flags.continuous_with_spaces THEN "continuous_with_spaces"
    ELSE IF flags.timestamp_based THEN "timestamp_based"
    ELSE IF flags.same_length THEN "same_length"
    ELSE IF flags.continuous THEN "continuous"
    ELSE "original"

FlagSets ==
    [continuous : BOOLEAN, same_length : BOOLEAN,
     timestamp_based : BOOLEAN, continuous_with_spaces : BOOLEAN]

NoPath == Path("", "", "", "", 0)
NoFlags == [continuous |-> FALSE, same_length |-> FALSE,
            timestamp_based |-> FALSE, continuous_with_spaces |-> FALSE]

\* ------------------------------------------------------------------- state
VARIABLES
    recording,      \* the upload the requests repeat (never changes)
    job_status,     \* the job_status dict: job id -> ProcessingStatus
    task,           \* the locals of each job's process_audio_file coroutine
    fs,             \* the files under uploads/ and outputs/: path -> audio
    progressLog,    \* every value assigned to job_status[j].progress, in order
    written,        \* the paths each job has created or overwritten
    synthLog,       \* the generate_speech calls that returned, per job
    call            \* the last direct call of an audio function and its result

vars == <<recording, job_status, task, fs, progressLog, written, synthLog, call>>

NoCall == [op |-> "none"]

IdleTask ==
    [pc |-> "idle", flags |-> NoFlags, mode |-> "none", sentences |-> << >>, i |-> 0,
     processed_chunks |-> << >>, temp_files |-> << >>, sentence_durations |-> << >>,
     original_ms |-> 0, voice_id |-> NoVoice]

Init ==
    /\ recording \in Recordings
    /\ job_status = << >>
    /\ task = [j \in Jobs |-> IdleTask]
    /\ fs = << >>
    /\ progressLog = [j \in Jobs |-> << >>]
    /\ written = [j \in Jobs |-> {}]
    /\ synthLog = [j \in Jobs |-> << >>]
    /\ call = NoCall

\* ------------------------------------------------------------ step helpers
\* One step of job j: its new locals t, the status fields it assigns, the
\* files it leaves, the progress values it assigned (log), the paths it
\* wrote (wr) and the synthesis returns it consumed (sl).
Commit(j, t, status, error, url, files, log, wr, sl) ==
    /\ task' = [task EXCEPT ![j] = t]
    /\ job_status' = [job_status EXCEPT ![j] =
            [status |-> status,
             progress |-> IF log = << >> THEN @.progress ELSE log[Len(log)],
             error |-> error, download_url |-> url]]
    /\ fs' = files
    /\ progressLog' = [progressLog EXCEPT ![j] = @ \o log]
    /\ written' = [written EXCEPT ![j] = @ \cup wr]
    /\ synthLog' = [synthLog EXCEPT ![j] = @ \o sl]
    /\ UNCHANGED <<recording, call>>

\* the step goes on to the next await
Continue(j, t, files, log, wr, sl) ==
    Commit(j, t, "processing", job_status[j].error, job_status[j].download_url,
           files, log, wr, sl)

\* a variant whose except block also marks the job as fully progressed
FailJob_full_progress(j, t, files, err, log, wr, sl) ==
    Commit(j, [t EXCEPT !.pc = "done"], "failed", err, job_status[j].download_url,
           files, log \o <<100>>, wr, sl)

\* a variant whose except block records the error but leaves the status
FailJob_status_not_set(j, t, files, err, log, wr, sl) ==
    Commit(j, [t EXCEPT !.pc = "done"], "processing", err, job_status[j].download_url,
           files, log, wr, sl)

\* the except block of process_audio_file
FailJob(j, t, files, err, log, wr, sl) ==
    Commit(j, [t EXCEPT !.pc = "done"], "failed", err, job_status[j].download_url,
           files, log, wr, sl)

\* glob(f"{job_id}_temp_*") in UPLOAD_DIR and OUTPUT_DIR
JobTempGlob(files, j) ==
    { p \in DOMAIN files : p.dir \in {"uploads", "outputs"} /\ p.job = j
                           /\ p.name = "temp_sentence" }

cleanup_temp_files(files, j, input_path, processed_chunks, output_path) ==
    RemoveFiles(files, {input_path} \cup Range(processed_chunks)
                       \cup (JobTempGlob(files, j) \ {output_path}))

\* the converters' _cleanup_temp_files and SentenceProcessor._cleanup_temp_files
converter_cleanup(files, temp_files) == RemoveFiles(files, Range(temp_files))

\* "Finalizing output file" to the end of the try block of process_audio_file
FinishOk(j, t, files, output_path, log, wr, sl) ==
    Commit(j, [t EXCEPT !.pc = "done"], "completed", job_status[j].error, output_path,
           cleanup_temp_files(files, j, InputPath(j), t.processed_chunks, output_path),
           log \o <<90, 100>>, wr, sl)

\* int(base + (i / n) * 50)
LoopProgress(base, i, n) == base + (50 * i) \div n

\* AudioSegment.from_file(path)
from_file(files, p) == IF p \in DOMAIN files THEN Ok(files[p]) ELSE Raise("No such file")

AllExist(files, paths) == \A k \in 1..Len(paths) : paths[k] \in DOMAIN files

\* ------------------------------------------------------------ upload_audio
\* A valid upload: the file is saved under a fresh job id, the status entry
\* is created and process_audio_file is scheduled with the request's flags
\* and with voice_id or settings.ELEVENLABS_VOICE_ID.
upload_audio(j, flags) ==
    /\ j \notin DOMAIN job_status
    /\ task[j].pc = "idle"
    /\ task' = [task EXCEPT ![j] = [IdleTask EXCEPT !.pc = "queued", !.flags = flags,
                                             !.voice_id = IF recording.voice_id = NoVoice
                                                            THEN ELEVENLABS_VOICE_ID
                                                          ELSE recording.voice_id]]
    /\ job_status' = (j :> [status |-> "queued", progress |-> 0, error |-> "",
                            download_url |-> NoPath]) @@ job_status
    /\ fs' = WriteFile(fs, InputPath(j),
                       << [kind |-> "original", src |-> <<j, 0>>, len |-> recording.len] >>)
    /\ progressLog' = [progressLog EXCEPT ![j] = <<0>>]
    /\ written' = [written EXCEPT ![j] = @ \cup {InputPath(j)}]
    /\ UNCHANGED <<recording, synthLog, call>>

\* ------------------------------------------------------ process_audio_file
\* From the start of the task to its first await (transcribe_audio).  The
\* four flags are read here only, so the locals keep the mode instead.
StartProcessing(j) ==
    /\ task[j].pc = "queued"
    /\ LET m == ModeOf(task[j].flags)
           t == [task[j] EXCEPT !.mode = m, !.flags = NoFlags, !.pc = "transcribe"]
       IN IF m = "continuous_with_spaces"
            THEN IF InputPath(j) \in DOMAIN fs
                   THEN Continue(j, t, fs, <<10, 15>>, {}, << >>)
                 ELSE FailJob(j, t, fs, "Input audio file not found", <<10>>, {}, << >>)
          ELSE Continue(j, t, fs, <<10>>, {}, << >>)

\* transcribe_audio raises (either call of it)
TranscribeFails(j) ==
    /\ task[j].pc \in {"transcribe", "transcribe2"}
    /\ FailJob(j, task[j], converter_cleanup(fs, task[j].temp_files),
               "Gladia transcription failed", << >>, {}, << >>)

\* the message raised for an empty transcription
NoSentences == "No sentences found in transcription"

\* transcribe_audio returns tr inside convert_voice_continuous_with_spaces
Transcribed_continuous_with_spaces(j, tr) ==
    /\ task[j].pc = "transcribe"
    /\ task[j].mode = "continuous_with_spaces"
    /\ IF Len(tr) = 0
         THEN FailJob(j, task[j], converter_cleanup(fs, task[j].temp_files),
                      NoSentences, << >>, {}, << >>)
       ELSE Continue(j, [task[j] EXCEPT !.sentences = tr, !.i = 0, !.pc = "synth"],
                     fs, <<LoopProgress(20, 0, Len(tr))>>, {}, << >>)

\* transcribe_audio returns tr in the timestamp_based branch: gap analysis,
\* then process_sentences_with_timestamps up to its first generate_speech
Transcribed_timestamp_based(j, tr) ==
    /\ task[j].pc = "transcribe"
    /\ task[j].mode = "timestamp_based"
    /\ LET timeline == create_continuous_timeline(filter_empty_spaces(tr))
           original == from_file(fs, InputPath(j))
           c == concatenate_audio(fs, << >>)
       IN IF ~original.ok
            THEN FailJob(j, task[j], fs, original.err, <<30, 35, 40>>, {}, << >>)
          ELSE IF Len(timeline) = 0
            THEN FailJob(j, task[j], fs, c.err, <<30, 35, 40>>, {}, << >>)
          ELSE Continue(j, [task[j] EXCEPT !.sentences = tr, !.i = 0, !.pc = "synth"],
                        fs, <<30, 35, 40>>, {}, << >>)

\* transcribe_audio returns in the else branch for a same_length job: the
\* result is not used; SameLengthVoiceConverter measures the recording and
\* transcribes again
Transcribed_same_length_outer(j) ==
    /\ task[j].pc = "transcribe"
    /\ task[j].mode = "same_length"
    /\ LET original == from_file(fs, InputPath(j))
       IN IF ~original.ok
            THEN FailJob(j, task[j], fs, "Input audio file not found", <<30>>, {}, << >>)
          ELSE Continue(j, [task[j] EXCEPT !.pc = "transcribe2",
                                           !.original_ms = AudioLen(original.audio)],
                        fs, <<30>>, {}, << >>)

\* transcribe_audio returns tr inside convert_voice_same_length
Transcribed_same_length(j, tr) ==
    /\ task[j].pc = "transcribe2"
    /\ IF Len(tr) = 0
         THEN FailJob(j, task[j], converter_cleanup(fs, task[j].temp_files),
                      NoSentences, << >>, {}, << >>)
       ELSE Continue(j, [task[j] EXCEPT !.sentences = tr, !.i = 0, !.pc = "synth"],
                     fs, << >>, {}, << >>)

\* transcribe_audio returns tr in the else branch for continuous and original
Transcribed_plain(j, tr) ==
    /\ task[j].pc = "transcribe"
    /\ task[j].mode \in {"continuous", "original"}
    /\ LET c == concatenate_audio(fs, task[j].processed_chunks)
       IN IF Len(tr) = 0
            THEN FailJob(j, task[j], fs, c.err, <<30, 80>>, {}, << >>)
          ELSE Continue(j, [task[j] EXCEPT !.sentences = tr, !.i = 0, !.pc = "synth"],
                        fs, <<30, LoopProgress(30, 0, Len(tr))>>, {}, << >>)

\* ---------------------------------------------------------- generate_speech
\* the sentence whose clip job j is waiting for, and the path of that clip
CurrentSentence(t) ==
    IF t.mode = "timestamp_based"
      THEN create_continuous_timeline(filter_empty_spaces(t.sentences))[t.i + 1].sentence
    ELSE t.sentences[t.i + 1]

\* how many sentences the loop of job j runs over
LoopLen(t) ==
    IF t.mode = "timestamp_based" THEN Len(filter_empty_spaces(t.sentences))
    ELSE Len(t.sentences)

ClonedPath(j, t) ==
    CASE t.mode = "continuous_with_spaces" -> TempSentencePath(j, t.i)
      [] t.mode = "same_length" -> SameLengthTempPath(t.i)
      [] t.mode = "timestamp_based" -> UuidTempPath(j, t.i)
      [] OTHER -> SentencePath(j, t.i)

\* the voice_id argument of the generate_speech call job j is waiting on:
\* convert_voice_same_length takes no voice_id and passes the configured one
SynthVoice(t) ==
    IF t.mode = "same_length" THEN ELEVENLABS_VOICE_ID ELSE t.voice_id

\* the API answers 200: the clip (L ms) is written to the output path
SynthResponse(j, L) ==
    /\ task[j].pc = "synth"
    /\ Continue(j, [task[j] EXCEPT !.pc = "cloned"],
                WriteFile(fs, ClonedPath(j, task[j]),
                          Clip(j, CurrentSentence(task[j]).n, L)),
                << >>, {ClonedPath(j, task[j])},
                << [i |-> task[j].i, ok |-> TRUE, voice |-> SynthVoice(task[j])] >>)

\* a variant that degrades gracefully: the failed sentence becomes one second
\* of silence and the loop goes on
SynthFails_substitute_silence(j) ==
    /\ task[j].pc = "synth"
    /\ Continue(j, [task[j] EXCEPT !.pc = "cloned"],
                WriteFile(fs, ClonedPath(j, task[j]), Silent(1000)),
                << >>, {ClonedPath(j, task[j])},
                << [i |-> task[j].i, ok |-> FALSE, voice |-> SynthVoice(task[j])] >>)

\* the API answers an error: generate_speech raises, and so does every caller
SynthFails(j) ==
    /\ task[j].pc = "synth"
    /\ FailJob(j, IF task[j].mode \in {"continuous_with_spaces", "same_length"}
                    THEN [task[j] EXCEPT !.temp_files = << >>] ELSE task[j],
               IF task[j].mode \in {"continuous_with_spaces", "same_length"}
                 THEN converter_cleanup(fs, task[j].temp_files) ELSE fs,
               "ElevenLabs API error", << >>, {},
               << [i |-> task[j].i, ok |-> FALSE, voice |-> SynthVoice(task[j])] >>)

\* original mode: match_timing, then the next sentence or the concatenation
Cloned_original(j, o) ==
    /\ task[j].pc = "cloned"
    /\ task[j].mode = "original"
    /\ LET t == task[j]
           n == Len(t.sentences)
           sentence == t.sentences[t.i + 1]
           cloned == from_file(fs, SentencePath(j, t.i))
           m == IF cloned.ok
                  THEN match_timing(cloned.audio, sentence.start_time, sentence.end_time, o)
                ELSE cloned
           files1 == WriteFile(fs, MatchedPath(j, t.i), m.audio)
           chunks == Append(t.processed_chunks, MatchedPath(j, t.i))
           t1 == [t EXCEPT !.processed_chunks = chunks, !.i = t.i + 1]
           c == concatenate_audio(files1, chunks)
       IN IF ~m.ok THEN FailJob(j, t, fs, m.err, << >>, {}, << >>)
          ELSE IF t.i + 1 < n
            THEN Continue(j, [t1 EXCEPT !.pc = "synth"], files1,
                          <<LoopProgress(30, t.i + 1, n)>>, {MatchedPath(j, t.i)}, << >>)
          ELSE IF ~c.ok
            THEN FailJob(j, t1, files1, c.err, <<80>>, {MatchedPath(j, t.i)}, << >>)
          ELSE FinishOk(j, t1, WriteFile(files1, FinalPath(j), c.audio), FinalPath(j),
                        <<80>>, {MatchedPath(j, t.i), FinalPath(j)}, << >>)

\* continuous mode: the clip is kept as it is
Cloned_continuous(j) ==
    /\ task[j].pc = "cloned"
    /\ task[j].mode = "continuous"
    /\ LET t == task[j]
           n == Len(t.sentences)
           chunks == Append(t.processed_chunks, SentencePath(j, t.i))
           t1 == [t EXCEPT !.processed_chunks = chunks, !.i = t.i + 1]
           c == concatenate_audio(fs, chunks)
       IN IF t.i + 1 < n
            THEN Continue(j, [t1 EXCEPT !.pc = "synth"], fs,
                          <<LoopProgress(30, t.i + 1, n)>>, {}, << >>)
          ELSE IF ~c.ok THEN FailJob(j, t1, fs, c.err, <<80>>, {}, << >>)
          ELSE FinishOk(j, t1, WriteFile(fs, ContinuousPath(j), c.audio), ContinuousPath(j),
                        <<80>>, {ContinuousPath(j)}, << >>)

\* continuous_with_spaces mode: the converter's loop and, after the last
\* sentence, _create_continuous_audio_with_spaces and the cleanup
Cloned_continuous_with_spaces(j) ==
    /\ task[j].pc = "cloned"
    /\ task[j].mode = "continuous_with_spaces"
    /\ LET t == task[j]
           n == Len(t.sentences)
           temps == Append(t.temp_files, TempSentencePath(j, t.i))
           t1 == [t EXCEPT !.temp_files = temps, !.i = t.i + 1]
           original == from_file(fs, InputPath(j))
           final_audio == create_continuous_audio_with_spaces(
                              Load(fs, temps), t.sentences, AudioLen(original.audio))
           cleaned == converter_cleanup(fs, temps)
       IN IF t.i + 1 < n
            THEN Continue(j, [t1 EXCEPT !.pc = "synth"], fs,
                          <<LoopProgress(20, t.i + 1, n)>>, {}, << >>)
          ELSE IF ~original.ok \/ ~AllExist(fs, temps)
            THEN FailJob(j, [t1 EXCEPT !.temp_files = << >>], cleaned, "No such file",
                         <<75>>, {}, << >>)
          ELSE FinishOk(j, [t1 EXCEPT !.temp_files = << >>],
                        WriteFile(cleaned, ContinuousPath(j), final_audio),
                        ContinuousPath(j), <<75, 95>>, {ContinuousPath(j)}, << >>)

\* timestamp_based mode: the loop of process_sentences_with_timestamps and,
\* after the last sentence, the concatenation and _cleanup_temp_files
Cloned_timestamp_based(j, o) ==
    /\ task[j].pc = "cloned"
    /\ task[j].mode = "timestamp_based"
    /\ LET t == task[j]
           timeline == create_continuous_timeline(filter_empty_spaces(t.sentences))
           cloned == from_file(fs, UuidTempPath(j, t.i))
           a == IF cloned.ok
                  THEN adjust_audio_length(cloned.audio, timeline[t.i + 1].target_duration, o)
                ELSE cloned
           temps == Append(t.temp_files, AdjustedPath(j, t.i))
           files1 == RemoveFiles(WriteFile(fs, AdjustedPath(j, t.i), a.audio),
                                 {UuidTempPath(j, t.i)})
           t1 == [t EXCEPT !.temp_files = temps, !.i = t.i + 1]
           c == concatenate_audio(files1, temps)
       IN IF ~a.ok THEN FailJob(j, t, fs, a.err, << >>, {}, << >>)
          ELSE IF t.i + 1 < Len(timeline)
            THEN Continue(j, [t1 EXCEPT !.pc = "synth"], files1, << >>,
                          {AdjustedPath(j, t.i)}, << >>)
          ELSE IF ~c.ok
            THEN FailJob(j, t1, files1, c.err, << >>, {AdjustedPath(j, t.i)}, << >>)
          ELSE FinishOk(j, t1,
                        converter_cleanup(WriteFile(files1, TimestampBasedPath(j), c.audio),
                                          temps),
                        TimestampBasedPath(j), << >>,
                        {AdjustedPath(j, t.i), TimestampBasedPath(j)}, << >>)

\* same_length mode, a sentence that is not the last: the clip is measured
\* and the loop of convert_voice_same_length goes on
Cloned_same_length(j) ==
    /\ task[j].pc = "cloned"
    /\ task[j].mode = "same_length"
    /\ task[j].i + 1 < Len(task[j].sentences)
    /\ LET t == task[j]
           cloned == from_file(fs, SameLengthTempPath(t.i))
           temps == Append(t.temp_files, SameLengthTempPath(t.i))
       IN IF ~cloned.ok
            THEN FailJob(j, [t EXCEPT !.temp_files = << >>], converter_cleanup(fs, temps),
                         cloned.err, << >>, {}, << >>)
          ELSE Continue(j, [t EXCEPT !.temp_files = temps, !.i = t.i + 1, !.pc = "synth",
                                     !.sentence_durations = Append(@, AudioLen(cloned.audio))],
                        fs, << >>, {}, << >>)

\* same_length mode, the last sentence: the clip is measured, then
\* _create_same_length_audio and the cleanup; os[k] is what the speed-change
\* primitive does for clip k
Cloned_same_length_last(j, os) ==
    /\ task[j].pc = "cloned"
    /\ task[j].mode = "same_length"
    /\ task[j].i + 1 = Len(task[j].sentences)
    /\ LET t == task[j]
           temps == Append(t.temp_files, SameLengthTempPath(t.i))
           cloned == from_file(fs, SameLengthTempPath(t.i))
           durations == Append(t.sentence_durations, AudioLen(cloned.audio))
           t1 == [t EXCEPT !.temp_files = << >>, !.sentence_durations = durations,
                           !.i = t.i + 1]
           r == IF AllExist(fs, temps)
                  THEN create_same_length_audio(Load(fs, temps), durations, t.original_ms, os)
                ELSE Raise("No such file")
           cleaned == converter_cleanup(fs, temps)
       IN IF ~cloned.ok
            THEN FailJob(j, [t EXCEPT !.temp_files = << >>], cleaned, cloned.err,
                         << >>, {}, << >>)
          ELSE IF ~r.ok THEN FailJob(j, t1, cleaned, r.err, << >>, {}, << >>)
          ELSE FinishOk(j, t1, WriteFile(cleaned, SameLengthPath(j), r.audio),
                        SameLengthPath(j), << >>, {SameLengthPath(j)}, << >>)

Next ==
    \/ \E j \in Jobs, flags \in FlagSets : upload_audio(j, flags)
    \/ \E j \in Jobs : StartProcessing(j)
    \/ \E j \in Jobs : TranscribeFails(j)
    \/ \E j \in Jobs : Transcribed_continuous_with_spaces(j, recording.sentences)
    \/ \E j \in Jobs : Transcribed_timestamp_based(j, recording.sentences)
    \/ \E j \in Jobs : Transcribed_same_length_outer(j)
    \/ \E j \in Jobs : Transcribed_same_length(j, recording.sentences)
    \/ \E j \in Jobs : Transcribed_plain(j, recording.sentences)
    \/ \E j \in Jobs, L \in ClipLens : SynthResponse(j, L)
    \/ \E j \in Jobs : SynthFails(j)
    \/ \E j \in Jobs, o \in PrimOutcomes : Cloned_original(j, o)
    \/ \E j \in Jobs : Cloned_continuous(j)
    \/ \E j \in Jobs : Cloned_continuous_with_spaces(j)
    \/ \E j \in Jobs, o \in PrimOutcomes : Cloned_timestamp_based(j, o)
    \/ \E j \in Jobs : Cloned_same_length(j)
    \/ \E j \in Jobs : \E os \in [1..Len(task[j].sentences) -> PrimOutcomes] :
            Cloned_same_length_last(j, os)

Spec == Init /\ [][Next]_vars

\* the steps of the background task of job j: every await of
\* process_audio_file, with the collaborator returning or raising
JobStep(j) ==
    \/ StartProcessing(j)
    \/ TranscribeFails(j)
    \/ Transcribed_continuous_with_spaces(j, recording.sentences)
    \/ Transcribed_timestamp_based(j, recording.sentences)
    \/ Transcribed_same_length_outer(j)
    \/ Transcribed_same_length(j, recording.sentences)
    \/ Transcribed_plain(j, recording.sentences)
    \/ \E L \in ClipLens : SynthResponse(j, L)
    \/ SynthFails(j)
    \/ \E o \in PrimOutcomes : Cloned_original(j, o)
    \/ Cloned_continuous(j)
    \/ Cloned_continuous_with_spaces(j)
    \/ \E o \in PrimOutcomes : Cloned_timestamp_based(j, o)
    \/ Cloned_same_length(j)
    \/ \E os \in [1..Len(task[j].sentences) -> PrimOutcomes] :
          Cloned_same_length_last(j, os)

\* A third specification, for what a job eventually does: the event loop
\* runs every background task, and every collaborator call returns or
\* raises, so that no task waits for ever.
\* the task of job j is scheduled or stands at an await
TaskWaits(j) == task[j].pc \in {"queued", "transcribe", "transcribe2", "synth", "cloned"}

\* the task of job j takes a step
TaskRuns(j) == task'[j] # task[j]

\* weak fairness of the task's steps, which are enabled exactly while it waits
TaskIsRun(j) == []<>(~TaskWaits(j)) \/ []<><<TaskRuns(j)>>_vars

\* the voice asked for has no part in a job's status: one request voice
InitLive == Init /\ recording.voice_id = NoVoice

SpecLive == InitLive /\ [][Next]_vars /\ \A j \in Jobs : TaskIsRun(j)

\* ------------------------------------------------- the audio functions alone
\* A second specification: no job runs; one audio function is called
\* directly on inputs drawn from the sets below, and call records the
\* arguments and the result.
NaturalLens == {100, 900}

\* the lengths (ms) of the clips reconciled one at a time: these, and a clip
\* that holds no audio at all
ReconciledLens == NaturalLens \cup {0}

\* clip lengths and recording lengths (ms) for the same-length assembly
SameLengthClipLens == {50, 1550, 9000}

SameLengthTargets == {400, 1001, 8000}

\* targets (ms) of one clip in the same-length assembly
SameLengthClipTargets == {40, 98, 100, 150, 250, 400, 880, 900, 2000}

\* target durations in microseconds
TargetDurations == {0, 400, 104000, 106000, 140000, 2000000}

\* timestamp durations of the sentences given to both modes (microseconds)
SentenceDurations == {0, 106000, 2000000}

\* longest sentence list given to the filter and to gap analysis
MaxCallSentences == 3

\* the sentences of those lists (times in microseconds): three ordinary ones,
\* one too short, one whose text strips to a single character, one of
\* exactly 100 ms starting at 0, and one empty at 0
CallSentencePool ==
    { [text |-> <<"H", "i">>, start_time |-> 330000, end_time |-> 470000],
      [text |-> <<"H", "i">>, start_time |-> 1150000, end_time |-> 2230000],
      [text |-> <<"H", "i">>, start_time |-> 2570000, end_time |-> 7520000],
      [text |-> <<"H", "i">>, start_time |-> 600000, end_time |-> 650000],
      [text |-> <<" ", "a", " ">>, start_time |-> 500000, end_time |-> 900000],
      [text |-> <<"H", "i">>, start_time |-> 0, end_time |-> 100000],
      [text |-> <<"H", "i">>, start_time |-> 0, end_time |-> 0] }

\* the sentence lists, each sentence tagged with its position n
CallSentenceLists ==
    UNION { { [k \in 1..m |-> [text |-> f[k].text, start_time |-> f[k].start_time,
                                end_time |-> f[k].end_time, n |-> k]]
              : f \in [1..m -> CallSentencePool] } : m \in 0..MaxCallSentences }

\* two sentences that follow each other without a pause, from 0 on
AdjacentSentences ==
    << [text |-> <<"H", "i">>, start_time |-> 0, end_time |-> 370000, n |-> 1],
       [text |-> <<"H", "i">>, start_time |-> 370000, end_time |-> 1372000, n |-> 2] >>

\* the sentence lists given to gap analysis
AnalysedSentenceLists == CallSentenceLists \cup {AdjacentSentences}

\* where the sentences of a direct call start (microseconds)
CallStart == 250000

JobVars == <<recording, job_status, task, fs, progressLog, written, synthLog>>

\* the original-mode loop and concatenation of process_audio_file on clips
\* already synthesized: match_timing for every sentence, then concatenate_audio
original_mode(sentences, clips, os) ==
    LET n == Len(sentences)
        matched == [k \in 1..n |->
                       match_timing(clips[k], sentences[k].start_time,
                                    sentences[k].end_time, os[k])]
        processed_chunks == [k \in 1..n |-> MatchedPath("job", k - 1)]
        files == [p \in Range(processed_chunks) |-> matched[p.i + 1].audio]
    IN IF \E k \in 1..n : ~matched[k].ok
         THEN matched[CHOOSE k \in 1..n : ~matched[k].ok]
       ELSE concatenate_audio(files, processed_chunks)

\* the continuous-mode concatenation of process_audio_file on the same clips
continuous_mode(clips) ==
    LET processed_chunks == [k \in 1..Len(clips) |-> SentencePath("job", k - 1)]
        files == [p \in Range(processed_chunks) |-> clips[p.i + 1]]
    IN concatenate_audio(files, processed_chunks)

Call_match_timing(L, d, o) ==
    /\ call = NoCall
    /\ call' = [op |-> "match_timing", natural |-> L, target |-> d, outcome |-> o,
                result |-> match_timing(Clip("job", 0, L), CallStart, CallStart + d, o)]
    /\ UNCHANGED JobVars

Call_adjust_audio_length(L, d, o) ==
    /\ call = NoCall
    /\ call' = [op |-> "adjust_audio_length", natural |-> L, target |-> d, outcome |-> o,
                result |-> adjust_audio_length(Clip("job", 0, L), d, o)]
    /\ UNCHANGED JobVars

\* both modes on the same sentences (ds their timestamp durations) and the
\* same clips (ls their natural lengths)
Call_modes(ds, ls, os) ==
    LET n == Len(ds)
        sentences == [k \in 1..n |-> [text |-> <<"H", "i">>, start_time |-> CallStart,
                                      end_time |-> CallStart + ds[k], n |-> k]]
        clips == [k \in 1..n |-> Clip("job", k - 1, ls[k])]
    IN /\ call = NoCall
       /\ call' = [op |-> "modes", natural |-> ls, target |-> ds,
                   original |-> original_mode(sentences, clips, os),
                   continuous |-> continuous_mode(clips)]
       /\ UNCHANGED JobVars

Call_filter_empty_spaces(sentences) ==
    /\ call = NoCall
    /\ call' = [op |-> "filter_empty_spaces", sentences |-> sentences,
                result |-> filter_empty_spaces(sentences)]
    /\ UNCHANGED JobVars

\* _create_same_length_audio on clips of the natural lengths ls (their
\* measured durations are the sentence_durations) for a recording of target ms
Call_create_same_length_audio(ls, target, os) ==
    LET clips == [k \in 1..Len(ls) |-> Clip("job", k - 1, ls[k])]
    IN /\ call = NoCall
       /\ call' = [op |-> "create_same_length_audio", natural |-> ls, target |-> target,
                   outcomes |-> os,
                   result |-> create_same_length_audio(clips, ls, target, os)]
       /\ UNCHANGED JobVars

\* concatenate_audio on the clips of a job (natural lengths ls) of which
\* those at the positions in unreadable cannot be loaded
Call_concatenate_audio(ls, unreadable) ==
    LET audio_paths == [k \in 1..Len(ls) |-> SentencePath("job", k - 1)]
        loadable == { audio_paths[k] : k \in (1..Len(ls)) \ unreadable }
        files == [p \in loadable |-> Clip("job", p.i + 1, ls[p.i + 1])]
    IN /\ call = NoCall
       /\ call' = [op |-> "concatenate_audio", natural |-> ls, unreadable |-> unreadable,
                   result |-> concatenate_audio(files, audio_paths)]
       /\ UNCHANGED JobVars

\* the adjustment of one clip of L ms to a target of T ms in
\* _create_same_length_audio
Call_same_length_adjust(L, T, o) ==
    /\ call = NoCall
    /\ call' = [op |-> "same_length_adjust", natural |-> L, target |-> T, outcome |-> o,
                result |-> SameLengthAdjust(Clip("job", 0, L), T, o)]
    /\ UNCHANGED JobVars

\* ------------------------------------------------- upload_audio, rejected
\* settings.MAX_FILE_SIZE (bytes)
MAX_FILE_SIZE == 100000000

\* settings.ALLOWED_EXTENSIONS.split(',')
ALLOWED_EXTENSIONS ==
    { <<"w", "a", "v">>, <<"m", "p", "3">>, <<"m", "4", "a">>,
      <<"f", "l", "a", "c">>, <<"o", "g", "g">> }

\* the uploads sent: the file name (a sequence of characters, empty when the
\* part has no file name) and the size of the content
UploadFilenames ==
    { << >>, <<"a">>, <<"a", ".", "w", "a", "v">>, <<"a", ".", "W", "A", "V">>,
      <<"a", ".", "t", "x", "t">> }

UploadRequests == [filename : UploadFilenames, size : {MAX_FILE_SIZE, MAX_FILE_SIZE + 1}]

\* Path(filename).suffix: from the last dot on, when a name comes before it
Suffix(filename) ==
    LET dots == { k \in 1..Len(filename) : filename[k] = "." }
        last == IF dots = {} THEN 0 ELSE CHOOSE k \in dots : \A m \in dots : m <= k
    IN IF last > 1 THEN SubSeq(filename, last, Len(filename)) ELSE << >>

\* str.lower() on the characters used here
Lower(t) ==
    [k \in 1..Len(t) |->
        CASE t[k] = "W" -> "w" [] t[k] = "A" -> "a" [] t[k] = "V" -> "v" [] OTHER -> t[k]]

\* str.lstrip('.')
RECURSIVE LStripDots(_)
LStripDots(t) == IF t # << >> /\ t[1] = "." THEN LStripDots(Tail(t)) ELSE t

\* the HTTPException the validation of upload_audio raises, if any
UploadValidation(request) ==
    LET file_ext == LStripDots(Lower(Suffix(request.filename)))
    IN IF request.filename = << >>
         THEN [raised |-> TRUE, status_code |-> 400, detail |-> "No file provided"]
       ELSE IF file_ext \notin ALLOWED_EXTENSIONS
         THEN [raised |-> TRUE, status_code |-> 400, detail |-> "File type not supported"]
       ELSE IF request.size > MAX_FILE_SIZE
         THEN [raised |-> TRUE, status_code |-> 400, detail |-> "File too large"]
       ELSE [raised |-> FALSE, status_code |-> 200, detail |-> ""]

\* the validation runs inside try: ... except Exception as e, and
\* HTTPException is an Exception: what was raised is answered as
\* HTTPException(status_code=500, detail=str(e))
UploadRejection(raised) ==
    [status_code |-> 500, detail |-> raised.detail]

\* upload_audio on a request its validation refuses: the exception leaves
\* the handler before the file is written, the status entry created or the
\* background task added
Call_upload_audio_rejected(request) ==
    /\ call = NoCall
    /\ UploadValidation(request).raised
    /\ call' = [op |-> "upload_audio", request |-> request,
                response |-> UploadRejection(UploadValidation(request))]
    /\ UNCHANGED JobVars

\* the first analysis of a sentence list
Call_analyze_sentence_gaps(sentences) ==
    /\ call = NoCall
    /\ call' = [op |-> "analyze_sentence_gaps", sentences |-> sentences,
                result |-> analyze_sentence_gaps(sentences),
                rounding |-> analysis_rounding(sentences),
                after |-> sentences_after_analysis(sentences)]
    /\ UNCHANGED JobVars

\* the same list object analysed a second time
Call_analyze_sentence_gaps_again ==
    /\ call.op = "analyze_sentence_gaps"
    /\ call' = [op |-> "analyze_sentence_gaps_again", sentences |-> call.sentences,
                result |-> call.result,
                rounding |-> call.rounding,
                after |-> sentences_after_analysis(call.after),
                again |-> analyze_sentence_gaps(call.after)]
    /\ UNCHANGED JobVars

InitCalls == Init /\ recording.sentences = << >> /\ recording.voice_id = NoVoice

NextCalls ==
    \/ \E L \in ReconciledLens, d \in TargetDurations, o \in PrimOutcomes :
          Call_match_timing(L, d, o)
    \/ \E L \in ReconciledLens, d \in TargetDurations, o \in PrimOutcomes :
          Call_adjust_audio_length(L, d, o)
    \/ \E n \in 1..MaxSentences :
          \E ds \in [1..n -> SentenceDurations], ls \in [1..n -> NaturalLens],
             os \in [1..n -> PrimOutcomes] : Call_modes(ds, ls, os)
    \/ \E sentences \in CallSentenceLists : Call_filter_empty_spaces(sentences)
    \/ \E sentences \in AnalysedSentenceLists : Call_analyze_sentence_gaps(sentences)
    \/ Call_analyze_sentence_gaps_again
    \/ \E request \in UploadRequests : Call_upload_audio_rejected(request)
    \/ \E L \in NaturalLens, T \in SameLengthClipTargets, o \in PrimOutcomes :
          Call_same_length_adjust(L, T, o)
    \/ \E n \in 1..MaxSentences :
          \E ls \in [1..n -> NaturalLens], unreadable \in SUBSET (1..n) :
             Call_concatenate_audio(ls, unreadable)
    \/ \E n \in 1..MaxSentences :
          \E ls \in [1..n -> SameLengthClipLens], target \in SameLengthTargets,
             os \in [1..n -> PrimOutcomes] : Call_create_same_length_audio(ls, target, os)

SpecCalls == InitCalls /\ [][NextCalls]_vars


\* ------------------------------------------------------------------ claims
Started == DOMAIN job_status

Done(j) == task[j].pc = "done"

Completed(j) == j \in Started /\ job_status[j].status = "completed"

Failed(j) == j \in Started /\ job_status[j].status = "failed"

\* the final output paths a job may write
OutputPaths(j) ==
    {FinalPath(j), ContinuousPath(j), TimestampBasedPath(j), SameLengthPath(j)}

\* the output of a completed job
OutputAudio(j) == fs[job_status[j].download_url]

NonDecreasing(s) == \A k \in 1..(Len(s) - 1) : s[k] <= s[k + 1]

SynthFailed(j) == \E k \in 1..Len(synthLog[j]) : ~synthLog[j][k].ok

\* C1: the output of a completed original-mode job lasts as long as the
\* uploaded recording, within 1 ms.
C1_OriginalKeepsDuration ==
    \A j \in Started :
        (task[j].mode = "original" /\ Completed(j))
            => Abs(AudioLen(OutputAudio(j)) - recording.len) <= 1

\* C3: the values assigned to a job's progress never decrease, in any mode.
C3_ProgressMonotonic == \A j \in Jobs : NonDecreasing(progressLog[j])

\* C4: progress 100 is shown only by a completed job whose output file exists.
C4_HundredOnlyOnSuccess ==
    \A j \in Started :
        /\ job_status[j].progress = 100
              => /\ job_status[j].status = "completed"
                 /\ job_status[j].download_url \in DOMAIN fs
        /\ Failed(j) => \A k \in 1..Len(progressLog[j]) : progressLog[j][k] # 100

C4_Witness ==
    \E j \in Started, k \in Started :
        job_status[j].progress = 100 /\ Failed(k) /\ job_status[k].progress >= 30

TranscriptionReturned(j) ==
    /\ Done(j)
    /\ job_status[j].error \notin {"Gladia transcription failed", "Input audio file not found"}

C6_EmptyTranscriptionNamesNoSentences ==
    \A j \in Started :
        (recording.sentences = << >> /\ TranscriptionReturned(j))
            => /\ job_status[j].status = "failed"
               /\ job_status[j].error = NoSentences
               /\ synthLog[j] = << >>
               /\ OutputPaths(j) \cap DOMAIN fs = {}

\* C7: when a conversion has ended, none of the intermediate files it wrote
\* is left.
C7_NoIntermediateLeft ==
    \A j \in Started :
        Done(j) => (written[j] \cap DOMAIN fs) \subseteq ({InputPath(j)} \cup OutputPaths(j))

\* C8: two jobs never write the same path.
C8_WritesDisjoint ==
    \A j \in Jobs, k \in Jobs : j # k => written[j] \cap written[k] = {}

\* C9: the speech of a completed job's output is the speech of its own
\* sentences, in the order of the sentence list.
ProcessedSentences(j) ==
    IF task[j].mode = "timestamp_based" THEN filter_empty_spaces(task[j].sentences)
    ELSE task[j].sentences

C9_SegmentsInSentenceOrder ==
    \A j \in Started :
        Completed(j)
            => SpeechSrcs(OutputAudio(j))
                 = [k \in 1..Len(ProcessedSentences(j)) |-> <<j, ProcessedSentences(j)[k].n>>]

\* C2: reconciling a clip of positive natural duration to a target >= 0
\* completes and returns a clip within 1 ms of the target, for match_timing
\* and for _adjust_audio_length, whatever the speed-change primitive did.
C2_ReconcileWithinOneMs ==
    (call.op \in {"match_timing", "adjust_audio_length"}
        /\ call.natural > 0 /\ call.target >= 0)
      => /\ call.result.ok
         /\ Abs(ToUs(AudioLen(call.result.audio)) - call.target) <= 1000

\* C10: on the same sentences and clips the continuous-mode output is never
\* longer than the original-mode output.
BothModesDone == call.op = "modes" /\ call.original.ok /\ call.continuous.ok

ClipsFitSlots ==
    \A k \in 1..Len(call.natural) : call.natural[k] <= ToMs(call.target[k])

ValidSentence(sentence) ==
    /\ sentence.end_time - sentence.start_time >= 100000
    /\ Len(Strip(sentence.text)) >= 2

C11_FilterKeepsExactlyValid ==
    call.op = "filter_empty_spaces"
      => /\ \A k \in 1..Len(call.sentences) :
               ValidSentence(call.sentences[k])
                 <=> \E m \in 1..Len(call.result) : call.result[m] = call.sentences[k]
         /\ \A m \in 1..Len(call.result) :
               \E k \in 1..Len(call.sentences) : call.result[m] = call.sentences[k]
         /\ \A m \in 1..(Len(call.result) - 1) : call.result[m].n < call.result[m + 1].n

C11_Witness ==
    /\ call.op = "filter_empty_spaces"
    /\ Len(call.sentences) = 3
    /\ Len(call.result) = 1
    /\ \E k \in 1..3 : call.sentences[k].end_time - call.sentences[k].start_time = 50000
    /\ \E k \in 1..3 : Len(Strip(call.sentences[k].text)) = 1
    /\ call.result[1].end_time - call.result[1].start_time = 100000

\* C12: the number of sentences timestamp_based mode processes equals the
\* filtered_sentences count gap analysis reports for the same list.
Analysed == call.op \in {"analyze_sentence_gaps", "analyze_sentence_gaps_again"}

C12_ProcessedCountEqualsReported ==
    Analysed => Len(filter_empty_spaces(call.sentences)) = call.result.filtered_sentences

\* C13: gap analysis reports, in ascending time order, the leading gap before
\* the first valid sentence and the gaps between consecutive valid sentences
\* (sorted by start) that exceed 0.1 s, skipping invalid sentences, which
\* still count in total_sentences; for (0.33,0.47), (1.15,2.23), (2.57,7.52)
\* these are (0,0.33), (0.47,1.15), (2.23,2.57).
GapBefore(valid, k) ==
    IF k = 1
      THEN [start |-> 0, end |-> valid[1].start_time, duration |-> valid[1].start_time]
    ELSE [start |-> valid[k - 1].end_time, end |-> valid[k].start_time,
          duration |-> valid[k].start_time - valid[k - 1].end_time]

LongGap(gap) == gap.duration > 100000

ExpectedGaps(sentences) ==
    LET valid == SelectSeq(SortedByStart(sentences), ValidSentence)
    IN SelectSeq([k \in 1..Len(valid) |-> GapBefore(valid, k)], LongGap)

C13_GapsBetweenValidSentences ==
    Analysed
      => /\ call.result.gaps = ExpectedGaps(call.sentences)
         /\ call.result.total_sentences = Len(call.sentences)

\* the example of C13 as the code answers it
C13_ExampleAnswered ==
    (Analysed /\ Len(call.sentences) = 3
        /\ \A k \in 1..3 : call.sentences[k].start_time
                             = <<330000, 1150000, 2570000>>[k])
      => call.result.gaps
           = << [start |-> 0, end |-> 330000, duration |-> 330000],
                [start |-> 470000, end |-> 1150000, duration |-> 680000],
                [start |-> 2230000, end |-> 2570000, duration |-> 340000] >>

ZeroedAnalysis ==
    [total_sentences |-> 0, total_duration |-> 0, total_speech_time |-> 0,
     total_gap_time |-> 0, speech_ratio |-> <<0, 1>>, gaps |-> << >>,
     filtered_sentences |-> 0]

C15_ZeroedWheneverNoDuration ==
    (Analysed /\ (call.sentences = << >> \/ call.result.total_duration = 0))
      => call.result = ZeroedAnalysis

\* C15 as it holds: the empty list gives the zeroed analysis, and a
\* total_duration of 0 gives speech_ratio 0 (no division), while the counts
\* and total_speech_time still describe the sentences given.
C15_ZeroedForEmptyRatioGuarded ==
    Analysed
      => /\ call.sentences = << >> => call.result = ZeroedAnalysis
         /\ call.result.total_duration = 0 => call.result.speech_ratio = <<0, 1>>
         /\ call.result.total_sentences = Len(call.sentences)
         /\ call.result.total_speech_time = SpeechTime(call.sentences)

C15_Witness ==
    /\ Analysed
    /\ call.sentences # << >>
    /\ call.result.total_duration = 0
    /\ call.result.total_speech_time > 0
    /\ call.result.speech_ratio = <<0, 1>>

\* where each speech piece of an audio value begins (ms from its start)
RECURSIVE SpeechStarts(_, _)
SpeechStarts(a, pos) ==
    IF a = << >> THEN << >>
    ELSE (IF a[1].kind = "speech" THEN << [src |-> a[1].src, at |-> pos] >> ELSE << >>)
           \o SpeechStarts(Tail(a), pos + a[1].len)

\* C16: in the output of a completed original-mode job the speech of every
\* sentence begins at the sentence's original start, silence filling the gaps
\* before it, and trailing silence fills the output up to the recording's
\* duration.
C16_OriginalKeepsOffsets ==
    \A j \in Started :
        (task[j].mode = "original" /\ Completed(j))
            => LET starts == SpeechStarts(OutputAudio(j), 0)
               IN /\ Len(starts) = Len(task[j].sentences)
                  /\ \A k \in 1..Len(starts) :
                        Abs(starts[k].at - ToMs(task[j].sentences[k].start_time)) <= 1
                  /\ Abs(AudioLen(OutputAudio(j)) - recording.len) <= 1

\* C17: the output of a completed continuous_with_spaces job is at least as
\* long as the original recording: shorter assemblies are padded with trailing
\* silence up to the original duration, longer ones are not truncated.
C17_SpacesOutputNotShorter ==
    \A j \in Jobs :
        (Completed(j) /\ task[j].mode = "continuous_with_spaces")
            => AudioLen(OutputAudio(j)) >= recording.len

\* C18: in the output of a completed continuous_with_spaces job the clip of
\* every sentence begins at the sentence's original start_time, silence
\* filling the space before it.
C18_SpacesKeepsOffsets ==
    \A j \in Jobs :
        (Completed(j) /\ task[j].mode = "continuous_with_spaces")
            => LET starts == SpeechStarts(OutputAudio(j), 0)
               IN /\ Len(starts) = Len(task[j].sentences)
                  /\ \A k \in 1..Len(starts) :
                        starts[k].at = ToMs(task[j].sentences[k].start_time)

\* the sentences of a job that pass the filter
Surviving(j) == filter_empty_spaces(task[j].sentences)

\* C19: the output of a completed timestamp_based job lasts as long as the
\* surviving sentences together (the sum of end_time - start_time, in the
\* milliseconds of the audio) and holds one clip per surviving sentence.
C19_TimestampOutputIsSumOfDurations ==
    \A j \in Jobs :
        (Completed(j) /\ task[j].mode = "timestamp_based")
            => /\ AudioLen(OutputAudio(j)) = ToMs(SpeechTime(Surviving(j)))
               /\ Len(SpeechStarts(OutputAudio(j), 0)) <= Len(Surviving(j))

\* a same-length assembly that returned audio
SameLengthAssembled == call.op = "create_same_length_audio" /\ call.result.ok

\* how far the output is from the original duration (ms)
SameLengthDrift == Abs(AudioLen(call.result.audio) - call.target)

C21_SynthesisUsesRequestedVoice ==
    \A j \in Started :
        \A k \in 1..Len(synthLog[j]) : synthLog[j][k].voice = task[j].voice_id

\* C22: when a clip cannot be loaded during the concatenation, the
\* concatenation fails; it does not return an output in which the clip is
\* replaced or left out.
C22_UnreadableClipFailsConcatenation ==
    (call.op = "concatenate_audio" /\ call.unreadable # {}) => ~call.result.ok

\* the letters and digits among the characters of the sentences drawn here
Alphanumeric == {"H", "i", "a"}

\* the validity rule: at least 0.1 s long, at least two characters once
\* trimmed, and at least one letter or digit
ValidByRule(sentence) ==
    /\ sentence.end_time - sentence.start_time >= 100000
    /\ Len(Strip(sentence.text)) >= 2
    /\ \E k \in 1..Len(sentence.text) : sentence.text[k] \in Alphanumeric

\* C23: a continuous-mode job synthesizes only sentences that satisfy the
\* validity rule, and once it has completed it has synthesized every one of
\* them and its output holds nothing else.
C23_ContinuousSynthesizesExactlyValid ==
    \A j \in Started :
        task[j].mode = "continuous"
            => /\ \A k \in 1..Len(synthLog[j]) :
                     ValidByRule(task[j].sentences[synthLog[j][k].i + 1])
               /\ Completed(j) =>
                     /\ Len(synthLog[j]) = Len(SelectSeq(task[j].sentences, ValidByRule))
                     /\ Len(SpeechStarts(OutputAudio(j), 0)) = Len(synthLog[j])

\* the clip a same-length adjustment was called on
AdjustedClip == Clip("job", 0, call.natural)

\* the result of the speed change for that call
SpeedChanged == speedup(AdjustedClip, ToUs(call.target), call.outcome)

\* the clip followed by silence: half the missing length, and the other half
\* only when it is more than 100 ms
PaddedInHalves ==
    LET padding_ms == call.target - call.natural
        first == padding_ms \div 2
        second == padding_ms - first
    IN Ok(AdjustedClip \o Silent(first) \o (IF second > 100 THEN Silent(second) ELSE << >>))

\* C24: a clip whose target exceeds twice its natural duration is stretched;
\* a clip whose target is below its natural duration is truncated when the
\* compression factor is below 0.5 and compressed otherwise; a clip whose
\* target is within 5% of its natural duration passes through unchanged.
C24_SameLengthAdjustmentChoice ==
    call.op = "same_length_adjust"
      => /\ call.target > 2 * call.natural => call.result = SpeedChanged
         /\ (call.target < call.natural
               /\ ~WithinFivePercent(call.target, call.natural))
              => call.result = IF 2 * call.target < call.natural
                                 THEN Ok(Trim(AdjustedClip, call.target))
                               ELSE SpeedChanged
         /\ WithinFivePercent(call.target, call.natural) => call.result = Ok(AdjustedClip)

\* C24 as the code has it: above the natural duration the clip is stretched
\* up to twice its length and padded with silence beyond that; below it the
\* clip is truncated when the compression factor is below 0.5 and compressed
\* otherwise; it passes through only when the target is its length in ms.
C24_SameLengthAdjustmentAsCoded ==
    call.op = "same_length_adjust"
      => call.result =
            (IF call.target > 2 * call.natural THEN PaddedInHalves
             ELSE IF call.target > call.natural THEN SpeedChanged
             ELSE IF call.target = call.natural THEN Ok(AdjustedClip)
             ELSE IF 2 * call.target >= call.natural THEN SpeedChanged
             ELSE Ok(Trim(AdjustedClip, call.target)))

\* a clip padded because its target is beyond twice its length, while the
\* speed change would have raised
C24_Witness ==
    /\ call.op = "same_length_adjust"
    /\ call.target > 2 * call.natural
    /\ call.outcome = "raise"
    /\ call.result.ok
    /\ AudioLen(call.result.audio) > call.natural

\* a reconciliation of one clip in which the speed change was attempted
\* and raised
PrimitiveFailed ==
    /\ call.op \in {"match_timing", "adjust_audio_length"}
    /\ call.natural > 0
    /\ ~WithinFivePercent(call.target, ToUs(call.natural))
    /\ call.outcome = "raise"

\* C25: in match_timing and in _adjust_audio_length alike, a speed change
\* that raises does not fail the reconciliation: a clip to be stretched is
\* padded with trailing silence of target - natural, a clip to be compressed
\* is cut to the target duration.
C25_PrimitiveFailureFallsBack ==
    PrimitiveFailed
      => /\ call.result.ok
         /\ call.result.audio =
               IF call.target > ToUs(call.natural)
                 THEN Clip("job", 0, call.natural)
                        \o Silent(ToMs(call.target) - call.natural)
               ELSE Trim(Clip("job", 0, call.natural), ToMs(call.target))

\* C26: reconciling a clip of natural duration 0 to a target T >= 0 does not
\* raise; no speed change is attempted and the result is T of silence.
C26_EmptyClipBecomesSilence ==
    (call.op \in {"match_timing", "adjust_audio_length"} /\ call.natural = 0)
      => /\ call.result.ok
         /\ call.result.audio = Silent(ToMs(call.target))

\* C27: an upload without a file name, with an extension that is not
\* allowed or with content above the size limit is answered with status 400
\* and leaves no status entry, no uploaded file and no scheduled task.
C27_RejectedUploadIs400 ==
    call.op = "upload_audio"
      => /\ call.response.status_code = 400
         /\ job_status = << >>
         /\ fs = << >>
         /\ \A j \in Jobs : task[j].pc = "idle"

\* the changes of a job's status that the lifecycle allows
StatusChanges ==
    { <<"queued", "processing">>, <<"processing", "completed">>,
      <<"processing", "failed">> }

StatusStep ==
    \A j \in Jobs :
        /\ j \in DOMAIN job_status => j \in DOMAIN job_status'
        /\ (j \notin DOMAIN job_status /\ j \in DOMAIN job_status')
              => job_status'[j].status = "queued"
        /\ (j \in DOMAIN job_status /\ j \in DOMAIN job_status')
              => \/ job_status'[j].status = job_status[j].status
                 \/ <<job_status[j].status, job_status'[j].status>> \in StatusChanges

Processing(j) == j \in DOMAIN job_status /\ job_status[j].status = "processing"

Terminal(j) == j \in DOMAIN job_status /\ job_status[j].status \in {"completed", "failed"}

\* C28: a job's status starts as queued and changes only from queued to
\* processing and from processing to completed or failed (so a completed or
\* failed job keeps its status), and a job that is processing eventually is
\* completed or failed.
C28_StatusLifecycle ==
    /\ [][StatusStep]_vars
    /\ \A j \in Jobs : Processing(j) ~> Terminal(j)

\* one job has completed and the other has failed
C28_Witness ==
    \E j \in Jobs, k \in Jobs : Completed(j) /\ Failed(k)

\* how late (microseconds) the clip of sentence k of a completed
\* continuous_with_spaces job begins in the output: the output length minus
\* current_position after sentence k, the clip's own length being in both
SpacesLag(j, k) ==
    ToUs(SpeechStarts(OutputAudio(j), 0)[k].at) - task[j].sentences[k].start_time

\* the clips of an audio value, in order
SpeechPieces(a) == SelectSeq(a, LAMBDA piece : piece.kind = "speech")

\* by how much the clip of sentence k runs over the start of sentence k + 1:
\* current_position after sentence k, less the next start_time
SpacesOverrun(j, k) ==
    LET sentence_duration == ToUs(SpeechPieces(OutputAudio(j))[k].len)
    IN task[j].sentences[k].start_time + sentence_duration
         - task[j].sentences[k + 1].start_time

\* C29: in the output of a completed continuous_with_spaces job no clip
\* begins before its sentence's start_time (the output is never shorter than
\* current_position), the lag does not decrease from one sentence to the
\* next, and after a clip that overruns the next sentence's start every later
\* clip is late by at least the overrun.
C29_SpacesLagNeverDecreases ==
    \A j \in Jobs :
        (Completed(j) /\ task[j].mode = "continuous_with_spaces")
            => LET n == Len(task[j].sentences)
               IN /\ Len(SpeechStarts(OutputAudio(j), 0)) = n
                  /\ \A k \in 1..n : SpacesLag(j, k) >= 0
                  /\ \A k \in 1..(n - 1) : SpacesLag(j, k + 1) >= SpacesLag(j, k)
                  /\ \A k \in 1..(n - 1) : \A m \in (k + 1)..n :
                        SpacesOverrun(j, k) > 0 => SpacesLag(j, m) >= SpacesOverrun(j, k)

\* the sentences of a list do not overlap: sorted by start, every sentence
\* begins at or after the end of the one before, and none ends before it begins
NonOverlapping(sentences) ==
    LET sorted_sentences == SortedByStart(sentences)
    IN /\ \A k \in 1..Len(sorted_sentences) :
             /\ sorted_sentences[k].start_time >= 0
             /\ sorted_sentences[k].end_time >= sorted_sentences[k].start_time
       /\ \A k \in 2..Len(sorted_sentences) :
             sorted_sentences[k].start_time >= sorted_sentences[k - 1].end_time

\* the time before the first sentence and between the sentences of a sorted
\* list that is not reported as a gap: the separations of at most 0.1 s
RECURSIVE UnreportedTime(_, _, _)
UnreportedTime(sorted_sentences, i, prev_end) ==
    IF i > Len(sorted_sentences) THEN 0
    ELSE LET separation == sorted_sentences[i].start_time - prev_end
         IN (IF separation <= 100000 THEN separation ELSE 0)
              + UnreportedTime(sorted_sentences, i + 1, sorted_sentences[i].end_time)

\* C30: for a list of sentences that do not overlap, total_speech_time and
\* total_gap_time together do not exceed total_duration, they fall short of
\* it by exactly the separations of at most 0.1 s, and speech_ratio lies
\* between 0 and 1.
C30_GapAnalysisAccountsForDuration ==
    (call.op = "analyze_sentence_gaps" /\ NonOverlapping(call.sentences))
        => LET r == call.result
               unreported == UnreportedTime(SortedByStart(call.sentences), 1, 0)
           IN /\ r.total_speech_time + r.total_gap_time + unreported = r.total_duration
              \* with nothing unreported the doubles must not exceed it either
              /\ unreported = 0 => call.rounding.total_speech_time <= 0
              /\ r.speech_ratio[1] >= 0
              /\ r.speech_ratio[2] > 0
              /\ r.speech_ratio[1] <= r.speech_ratio[2]
              /\ r.speech_ratio[1] = r.speech_ratio[2]
                    => call.rounding.total_speech_time <= 0

====
